---------------------------- MODULE Spec2Model ----------------------------
(***************************************************************************)
(* CryptoGame: a paper-trading game (Streamlit).  The model follows the    *)
(* files under src/app: achievements.py (unlock set and point ledger),     *)
(* store.py (rewards store), game_logic.py (trading engine) and main.py    *)
(* (login, Home page buy/sell flows, Store page buttons).                  *)
(*                                                                         *)
(* Every per-player file is a variable indexed by the player's display     *)
(* name.  A file that does not exist yet reads as its default (the reads   *)
(* create it with that default), so an absent file and a file holding the  *)
(* default are the same value here.                                        *)
(*                                                                         *)
(* Money is in whole rupees.  Quoted prices are drawn from multiples of    *)
(* 200 so that the 0.5% fee of a trade is a whole number and the float     *)
(* arithmetic of the code is exact.  A holding's average buy price is the  *)
(* reduced fraction BuyNum / BuyDen.                                       *)
(***************************************************************************)
EXTENDS Integers, Sequences, FiniteSets, TLC

\* ------------------------------------------------------------ bounds
\* largest order quantity a player enters
MaxQty == 2
\* largest quantity of one symbol the bounded model lets a player hold
MaxHold == 3
\* number of trades (buys and sells that succeed) the bounded model follows
MaxTrades == 3
\* largest point ledger the bounded model follows through add_points
MaxPoints == 60

\* largest quantity of a row the bounded model lets a split produce
MaxSplitQty == 8

\* largest session balance the bounded model lets dividends build up
MaxBalance == 10000

\* number of provider downloads the bounded model follows
MaxFetches == 3

\* ------------------------------------------------------------ inputs
Players == {"alice", "bob", "NA"}
\* names typed into the login box
LoginNames == {"alice"}
\* names read_csv turns into a missing value when it reads users.csv back
\* (its default na_values), among the names of Players
NaNames == {"NA"}
\* names typed into the login box by players who come back
ReturningNames == {"alice", "NA"}
Symbols == {"AAPL", "TCS.NS"}
\* closing prices the provider quotes (rupees)
Prices == {200, 6000}
\* readings of time.time() (epoch seconds)
Instants == {1, 86401, 86402}
\* achievement ids passed to unlock_achievement
UnlockIds == {"first_trade", "portfolio_50k", "portfolio_5lakh"}
\* reward ids offered by the Store page that the model follows
RewardIds == {"cash_small", "theme_dark", "badge_gold", "boost_no_fee"}
\* amounts passed to add_points / redeem_points
PointAmounts == {5, 10}

\* ------------------------------------------------------------ constants
\* Python's None for a balance (no row in users.csv, no session balance)
None == -1
STARTING_BALANCE == 10000
LOGIN_BALANCE == 10000
DAY == 86400
\* TRANSACTION_FEE_RATE = 0.005 = FEE_NUM / FEE_DEN
FEE_NUM == 5
FEE_DEN == 1000
\* REFRESH_HOURS * 60 * 60 seconds
REFRESH_INTERVAL == 21600

\* ------------------------------------------------------------ achievements.py
AchIds ==
  {"first_trade", "portfolio_10k", "portfolio_50k", "portfolio_1lakh",
   "portfolio_5lakh", "ten_trades", "twentyfive_trades", "fifty_trades",
   "first_sell", "all_green", "diversified", "big_winner", "no_cash",
   "first_loss"}

ACHIEVEMENTS ==
  [a \in AchIds |->
     CASE a = "first_trade"       -> [difficulty |-> "Beginner",     points |-> 10]
       [] a = "portfolio_10k"     -> [difficulty |-> "Beginner",     points |-> 10]
       [] a = "portfolio_50k"     -> [difficulty |-> "Intermediate", points |-> 25]
       [] a = "portfolio_1lakh"   -> [difficulty |-> "Hard",         points |-> 50]
       [] a = "portfolio_5lakh"   -> [difficulty |-> "Godly",        points |-> 100]
       [] a = "ten_trades"        -> [difficulty |-> "Intermediate", points |-> 20]
       [] a = "twentyfive_trades" -> [difficulty |-> "Hard",         points |-> 40]
       [] a = "fifty_trades"      -> [difficulty |-> "Godly",        points |-> 80]
       [] a = "first_sell"        -> [difficulty |-> "Beginner",     points |-> 10]
       [] a = "all_green"         -> [difficulty |-> "Hard",         points |-> 60]
       [] a = "diversified"       -> [difficulty |-> "Intermediate", points |-> 30]
       [] a = "big_winner"        -> [difficulty |-> "Godly",        points |-> 100]
       [] a = "no_cash"           -> [difficulty |-> "Hard",         points |-> 50]
       [] a = "first_loss"        -> [difficulty |-> "Beginner",     points |-> 10]]

\* ------------------------------------------------------------ store.py
AllRewardIds ==
  {"cash_small", "cash_medium", "cash_large", "cash_godly", "badge_gold",
   "badge_platinum", "theme_dark", "theme_light", "boost_double_profit",
   "boost_no_fee", "analytics_pro"}

REWARDS ==
  [r \in AllRewardIds |->
     CASE r = "cash_small"   -> [difficulty |-> "Beginner",     cost |-> 10,  value |-> 1000,   type |-> "cash"]
       [] r = "cash_medium"  -> [difficulty |-> "Intermediate", cost |-> 25,  value |-> 5000,   type |-> "cash"]
       [] r = "cash_large"   -> [difficulty |-> "Hard",         cost |-> 50,  value |-> 25000,  type |-> "cash"]
       [] r = "cash_godly"   -> [difficulty |-> "Godly",        cost |-> 100, value |-> 100000, type |-> "cash"]
       [] r = "badge_gold"   -> [difficulty |-> "Beginner",     cost |-> 20,  value |-> 0,      type |-> "badge"]
       [] r = "badge_platinum" -> [difficulty |-> "Hard",       cost |-> 50,  value |-> 0,      type |-> "badge"]
       [] r = "theme_dark"   -> [difficulty |-> "Beginner",     cost |-> 10,  value |-> 0,      type |-> "theme"]
       [] r = "theme_light"  -> [difficulty |-> "Beginner",     cost |-> 10,  value |-> 0,      type |-> "theme"]
       [] r = "boost_double_profit" -> [difficulty |-> "Intermediate", cost |-> 40, value |-> 0, type |-> "boost"]
       [] r = "boost_no_fee" -> [difficulty |-> "Intermediate", cost |-> 35,  value |-> 0,      type |-> "boost"]
       [] r = "analytics_pro" -> [difficulty |-> "Hard",        cost |-> 60,  value |-> 0,      type |-> "analytics"]]

\* ------------------------------------------------------------ state
VARIABLES
  users,        \* data/users.csv: name -> balance, None when the name has no row
  player_name,  \* st.session_state['player_name'], "" before login
  balance,      \* st.session_state['balance'], None before login
  portfolio,    \* data/Portfolio_{name}.csv: the sequence of holding rows
  unlocked,     \* data/achievements_{name}.json: the "unlocked" ids
  points,       \* data/points_{name}.txt
  owned,        \* data/owned_rewards_{name}.json
  active,       \* data/active_rewards_{name}.json
  now,          \* time.time()
  trades,       \* number of trades made so far (bounds the exploration)
  basis,        \* per name and symbol: the sum of the costs (price * quantity) of the buys
                \* since the row was created, 0 without a row, None once a sale left a row behind
  last,         \* the last operation: its name, inputs and outcome
  dividend_state, \* data/dividend_state.json: "last_month", "" when the key or the file is missing
  credit_month, \* per name: the calendar month of the last dividend credit, "" before any
  price_file,   \* data/prices.csv: its modification time (None when absent) and its columns
  fetches,      \* number of yf.download calls made by load_price_cache
  prices_df,    \* the columns of prices_df, the frame load_price_cache returned last
  price_alert,  \* st.session_state['price_alert'], NoAlert when the key is not set
  malformed,    \* the files under data/ whose content does not parse: pairs <<name, kind>>
  sessions      \* browser sessions open side by side under one name: what each has read
                \* and not yet written back, and the points their finished calls added

\* the state of the Detailed Analysis page and of the price cache
detailVars == <<dividend_state, credit_month, price_file, fetches, prices_df, price_alert>>

\* damaged files and sessions side by side
faultVars == <<malformed, sessions>>

vars == <<users, player_name, balance, portfolio, unlocked, points, owned,
          active, now, trades, basis, last, dividend_state, credit_month,
          price_file, fetches, prices_df, price_alert, malformed, sessions>>

\* an empty active_rewards mapping: "" is a key that is not set, 0 a missing boost_time
NoActive == [badge |-> "", theme |-> "", boost |-> "", boost_time |-> 0, analytics |-> ""]

\* no 'price_alert' key in the session state
NoAlert == [symbol |-> "", direction |-> "", price |-> 0]

\* the browser sessions open side by side
Sessions == {1, 2}
\* no session is between a read and its write, and no call has finished
NoSessions == [read |-> [s \in Sessions |-> None], added |-> 0]

\* the record of an operation's outcome: what it returned ("raise" for an
\* exception that ends the run) and its message
Outcome(op, ret, msg) == [op |-> op, ret |-> ret, msg |-> msg]

Init ==
  /\ users = [n \in Players |-> None]
  /\ player_name = ""
  /\ balance = None
  /\ portfolio = [n \in Players |-> <<>>]
  /\ unlocked = [n \in Players |-> {}]
  /\ points = [n \in Players |-> 0]
  /\ owned = [n \in Players |-> {}]
  /\ active = [n \in Players |-> NoActive]
  /\ now = 1
  /\ trades = 0
  /\ basis = [n \in Players |-> [s \in Symbols |-> 0]]
  /\ last = Outcome("init", "none", "")
  /\ dividend_state = ""
  /\ credit_month = [n \in Players |-> ""]
  /\ price_file = [mtime |-> None, cols |-> {}]
  /\ fetches = 0
  /\ prices_df = {}
  /\ price_alert = NoAlert
  /\ malformed = {}
  /\ sessions = NoSessions


\* ------------------------------------------------------------ session (main.py)
LoggedIn == player_name # ""

\* main.py load_user_data: pd.read_csv(USER_DATA_FILE), then the balance of
\* the first row whose name equals the name, None without such a row.  us
\* holds the row written last under each name; a name in NaNames is read back
\* as a missing value and equals no name
load_user_data(us, name) == IF name \in NaNames THEN None ELSE us[name]

\* a mutant of save_user_data that writes nothing
save_user_data_skip(us, name, bal) == us

\* main.py save_user_data: pd.read_csv, insert or update the name's row,
\* df.to_csv.  The rewrite puts an empty name where read_csv found a missing
\* one, so the rows written under the other names of NaNames are under no
\* name afterwards
save_user_data(us, name, bal) ==
  [n \in DOMAIN us |-> IF n = name THEN bal
                        ELSE IF n \in NaNames THEN None
                        ELSE us[n]]

\* main.py login block: adopt the stored balance, or create the row with 10000
Login(name) ==
  /\ ~LoggedIn
  /\ player_name' = name
  /\ IF load_user_data(users, name) # None
       THEN /\ balance' = load_user_data(users, name)
            /\ users' = users
       ELSE /\ balance' = LOGIN_BALANCE
            /\ users' = save_user_data(users, name, LOGIN_BALANCE)
  /\ last' = Outcome("login", "none", "")
  /\ UNCHANGED <<portfolio, unlocked, points, owned, active, now, trades, basis>>
  /\ UNCHANGED detailVars
  /\ UNCHANGED faultVars

\* main.py logout button: every session key is deleted, nothing on disk changes
Logout ==
  /\ LoggedIn
  /\ player_name' = ""
  /\ balance' = None
  /\ last' = Outcome("logout", "none", "")
  /\ UNCHANGED <<users, portfolio, unlocked, points, owned, active, now, trades, basis>>
  /\ price_alert' = NoAlert
  /\ UNCHANGED <<dividend_state, credit_month, price_file, fetches, prices_df>>
  /\ UNCHANGED faultVars

\* the clock moves on to a later reading
Tick ==
  /\ \E t \in Instants : t > now /\ now' = t
  /\ last' = Outcome("tick", "none", "")
  /\ UNCHANGED <<users, player_name, balance, portfolio, unlocked, points, owned,
                 active, trades, basis>>
  /\ UNCHANGED detailVars
  /\ UNCHANGED faultVars

\* ------------------------------------------------------------ achievements.py
\* add_points: the ledger plus pts
add_points(pts, n) == pts + n

\* a mutant of unlock_achievement that credits the points on every call
unlock_achievement_always(ul, pts, a) ==
  IF a \in AchIds
    THEN [unlocked |-> ul \cup {a}, points |-> add_points(pts, ACHIEVEMENTS[a].points), ret |-> a]
    ELSE [unlocked |-> ul \cup {a}, points |-> pts, ret |-> "StopIteration"]

\* unlock_achievement on the unlock set ul and the ledger pts.  The id is
\* appended and saved before the catalog is searched, so an id that is not in
\* the catalog stays in the set and next() raises StopIteration.
unlock_achievement(ul, pts, a) ==
  IF a \notin ul
    THEN IF a \in AchIds
           THEN [unlocked |-> ul \cup {a},
                 points |-> add_points(pts, ACHIEVEMENTS[a].points), ret |-> a]
           ELSE [unlocked |-> ul \cup {a}, points |-> pts, ret |-> "StopIteration"]
    ELSE [unlocked |-> ul, points |-> pts, ret |-> "None"]

\* a mutant of redeem_points that debits without comparing
redeem_points_unchecked(pts, n) == [points |-> pts - n, ok |-> TRUE]

\* redeem_points: debit n when the ledger holds at least n
redeem_points(pts, n) ==
  IF pts >= n THEN [points |-> pts - n, ok |-> TRUE]
              ELSE [points |-> pts, ok |-> FALSE]

\* get_unlocked_achievements, reduced to the difficulties can_redeem reads
unlocked_difficulties(ul) == {ACHIEVEMENTS[a].difficulty : a \in ul \cap AchIds}

\* Unlock(player, id) called for the session's player
Unlock(a) ==
  /\ LoggedIn
  /\ LET u == unlock_achievement(unlocked[player_name], points[player_name], a) IN
       /\ unlocked' = [unlocked EXCEPT ![player_name] = u.unlocked]
       /\ points' = [points EXCEPT ![player_name] = u.points]
       /\ last' = Outcome("unlock", u.ret, "")
  /\ UNCHANGED <<users, player_name, balance, portfolio, owned, active, now, trades, basis>>
  /\ UNCHANGED detailVars
  /\ UNCHANGED faultVars

\* Add points(player, amount) called for the session's player
AddPoints(n) ==
  /\ LoggedIn
  /\ points[player_name] + n <= MaxPoints
  /\ points' = [points EXCEPT ![player_name] = add_points(points[player_name], n)]
  /\ last' = Outcome("add_points", "none", "")
  /\ UNCHANGED <<users, player_name, balance, portfolio, unlocked, owned, active, now,
                 trades, basis>>
  /\ UNCHANGED detailVars
  /\ UNCHANGED faultVars

\* Redeem points(player, amount) called for the session's player
RedeemPoints(n) ==
  /\ LoggedIn
  /\ LET r == redeem_points(points[player_name], n) IN
       /\ points' = [points EXCEPT ![player_name] = r.points]
       /\ last' = Outcome("redeem_points", IF r.ok THEN "True" ELSE "False", "")
  /\ UNCHANGED <<users, player_name, balance, portfolio, unlocked, owned, active, now,
                 trades, basis>>
  /\ UNCHANGED detailVars
  /\ UNCHANGED faultVars

\* ------------------------------------------------------------ store.py
\* a mutant of can_redeem that checks the tier before the points
can_redeem_tier_first(pts, ul, r) ==
  IF r \notin AllRewardIds THEN [ok |-> FALSE, msg |-> "Reward not found."]
  ELSE IF REWARDS[r].difficulty \notin unlocked_difficulties(ul)
    THEN [ok |-> FALSE, msg |-> "You need at least one achievement of the tier unlocked."]
  ELSE IF pts < REWARDS[r].cost THEN [ok |-> FALSE, msg |-> "Not enough points."]
  ELSE [ok |-> TRUE, msg |-> ""]

\* can_redeem: points first, then an exact match of the tier
can_redeem(pts, ul, r) ==
  IF r \notin AllRewardIds THEN [ok |-> FALSE, msg |-> "Reward not found."]
  ELSE IF pts < REWARDS[r].cost THEN [ok |-> FALSE, msg |-> "Not enough points."]
  ELSE IF REWARDS[r].difficulty \notin unlocked_difficulties(ul)
    THEN [ok |-> FALSE, msg |-> "You need at least one achievement of the tier unlocked."]
  ELSE [ok |-> TRUE, msg |-> ""]

\* game_logic.update_cash_balance(player_name, new_balance) has two positional
\* parameters: a call with any other number of arguments raises TypeError
\* before anything is written.
update_cash_balance(us, args) ==
  IF Len(args) = 2
    THEN [users |-> save_user_data(us, args[1], args[2]), raised |-> FALSE]
    ELSE [users |-> us, raised |-> TRUE]

\* _add_owned_reward
add_owned_reward(own, r) == own \cup {r}

\* Can redeem(player, reward) called for the session's player
CanRedeem(r) ==
  /\ LoggedIn
  /\ LET c == can_redeem(points[player_name], unlocked[player_name], r) IN
       last' = Outcome("can_redeem", IF c.ok THEN "True" ELSE "False", c.msg)
  /\ UNCHANGED <<users, player_name, balance, portfolio, unlocked, points, owned, active,
                 now, trades, basis>>
  /\ UNCHANGED detailVars
  /\ UNCHANGED faultVars

\* Store page, button "Redeem: ..." (shown for a reward that is not owned):
\* store.redeem_reward(player, id, update_cash_balance, lambda: session balance),
\* then save_user_data(player, session balance) when it reports success.
StoreRedeem(r) ==
  /\ LoggedIn
  /\ r \notin owned[player_name]
  /\ LET p == player_name
         c == can_redeem(points[p], unlocked[p], r)
         d == redeem_points(points[p], REWARDS[r].cost)
         \* update_cash_balance(get_cash_balance() + reward["value"]): one argument
         w == update_cash_balance(users, <<balance + REWARDS[r].value>>)
     IN
       IF ~c.ok
         THEN /\ last' = Outcome("redeem", "False", c.msg)
              /\ UNCHANGED <<users, points, owned>>
       ELSE IF ~d.ok
         THEN /\ last' = Outcome("redeem", "False", "Redemption failed.")
              /\ UNCHANGED <<users, points, owned>>
       ELSE /\ points' = [points EXCEPT ![p] = d.points]
            /\ IF REWARDS[r].type = "cash"
                 THEN IF w.raised
                        THEN /\ last' = Outcome("redeem", "raise", "TypeError")
                             /\ UNCHANGED <<users, owned>>
                        ELSE /\ owned' = [owned EXCEPT ![p] = add_owned_reward(owned[p], r)]
                             /\ users' = save_user_data(w.users, p, balance)
                             /\ last' = Outcome("redeem", "True", "Redeemed!")
               ELSE IF REWARDS[r].type \in {"badge", "boost", "analytics"}
                 THEN /\ owned' = [owned EXCEPT ![p] = add_owned_reward(owned[p], r)]
                      /\ users' = save_user_data(users, p, balance)
                      /\ last' = Outcome("redeem", "True", "Redeemed!")
               ELSE /\ last' = Outcome("redeem", "False", "Unknown reward type.")
                    /\ UNCHANGED <<users, owned>>
  /\ UNCHANGED <<player_name, balance, portfolio, unlocked, active, now, trades, basis>>
  /\ UNCHANGED detailVars
  /\ UNCHANGED faultVars

\* a mutant of activate_reward that starts from an empty mapping
activate_reward_reset(act, r, t) ==
  IF r \notin AllRewardIds THEN [active |-> act, ok |-> FALSE, msg |-> "Reward not found."]
  ELSE IF REWARDS[r].type = "badge"
    THEN [active |-> [NoActive EXCEPT !.badge = r], ok |-> TRUE, msg |-> "activated!"]
  ELSE IF REWARDS[r].type = "theme"
    THEN [active |-> [NoActive EXCEPT !.theme = r], ok |-> TRUE, msg |-> "activated!"]
  ELSE IF REWARDS[r].type = "boost"
    THEN [active |-> [NoActive EXCEPT !.boost = r, !.boost_time = t], ok |-> TRUE,
          msg |-> "activated!"]
  ELSE IF REWARDS[r].type = "analytics"
    THEN [active |-> [NoActive EXCEPT !.analytics = r], ok |-> TRUE, msg |-> "activated!"]
  ELSE [active |-> act, ok |-> FALSE, msg |-> "Cannot activate this reward."]

\* activate_reward: the slot of the reward's type takes the id (ownership is
\* not looked at); a boost also stores the activation time
activate_reward(act, r, t) ==
  IF r \notin AllRewardIds THEN [active |-> act, ok |-> FALSE, msg |-> "Reward not found."]
  ELSE IF REWARDS[r].type = "badge"
    THEN [active |-> [act EXCEPT !.badge = r], ok |-> TRUE, msg |-> "activated!"]
  ELSE IF REWARDS[r].type = "theme"
    THEN [active |-> [act EXCEPT !.theme = r], ok |-> TRUE, msg |-> "activated!"]
  ELSE IF REWARDS[r].type = "boost"
    THEN [active |-> [act EXCEPT !.boost = r, !.boost_time = t], ok |-> TRUE, msg |-> "activated!"]
  ELSE IF REWARDS[r].type = "analytics"
    THEN [active |-> [act EXCEPT !.analytics = r], ok |-> TRUE, msg |-> "activated!"]
  ELSE [active |-> act, ok |-> FALSE, msg |-> "Cannot activate this reward."]

\* a mutant of use_boost that clears the slot and keeps the owned list
use_boost_slot_only(act, own, r) ==
  IF act.boost = r /\ r \in own
    THEN [active |-> [act EXCEPT !.boost = ""], owned |-> own, ok |-> TRUE, msg |-> "Boost used."]
    ELSE [active |-> act, owned |-> own, ok |-> FALSE, msg |-> "Boost not active or not owned."]

\* use_boost: the boost leaves the active slot and the owned list together
\* (boost_time stays in the mapping)
use_boost(act, own, r) ==
  IF act.boost = r /\ r \in own
    THEN [active |-> [act EXCEPT !.boost = ""], owned |-> own \ {r}, ok |-> TRUE,
          msg |-> "Boost used."]
    ELSE [active |-> act, owned |-> own, ok |-> FALSE, msg |-> "Boost not active or not owned."]

\* a mutant of is_boost_active that never reports the boost active
is_boost_active_never(act, own, r, t) == [active |-> act, owned |-> own, ret |-> FALSE]

\* is_boost_active: the slot holds the id and at most DAY seconds have passed;
\* past that the boost is used up through use_boost
is_boost_active(act, own, r, t) ==
  IF act.boost # r THEN [active |-> act, owned |-> own, ret |-> FALSE]
  ELSE IF act.boost_time = 0 THEN [active |-> act, owned |-> own, ret |-> TRUE]
  ELSE IF t - act.boost_time <= DAY THEN [active |-> act, owned |-> own, ret |-> TRUE]
  ELSE [active |-> use_boost(act, own, r).active, owned |-> use_boost(act, own, r).owned,
        ret |-> FALSE]

\* the slot of the active mapping a reward type is stored under
Slot(act, type) ==
  CASE type = "badge" -> act.badge
    [] type = "theme" -> act.theme
    [] type = "boost" -> act.boost
    [] type = "analytics" -> act.analytics
    [] OTHER -> ""

\* Store page, button "Activate: ..." (shown for an owned badge, theme, boost
\* or analytics reward that is not the active one of its type)
StoreActivate(r) ==
  /\ LoggedIn
  /\ r \in owned[player_name]
  /\ REWARDS[r].type \in {"badge", "theme", "boost", "analytics"}
  /\ Slot(active[player_name], REWARDS[r].type) # r
  /\ LET a == activate_reward(active[player_name], r, now) IN
       /\ active' = [active EXCEPT ![player_name] = a.active]
       /\ last' = Outcome("activate", IF a.ok THEN "True" ELSE "False", a.msg)
  /\ UNCHANGED <<users, player_name, balance, portfolio, unlocked, points, owned, now,
                 trades, basis>>
  /\ UNCHANGED detailVars
  /\ UNCHANGED faultVars

\* Store page, button "Use ..." (shown for an owned boost in the active slot)
StoreUse(r) ==
  /\ LoggedIn
  /\ REWARDS[r].type = "boost"
  /\ r \in owned[player_name]
  /\ active[player_name].boost = r
  /\ LET u == use_boost(active[player_name], owned[player_name], r) IN
       /\ active' = [active EXCEPT ![player_name] = u.active]
       /\ owned' = [owned EXCEPT ![player_name] = u.owned]
       /\ last' = Outcome("use_boost", IF u.ok THEN "True" ELSE "False", u.msg)
  /\ UNCHANGED <<users, player_name, balance, portfolio, unlocked, points, now, trades, basis>>
  /\ UNCHANGED detailVars
  /\ UNCHANGED faultVars

\* ids passed to activate_reward: two boosts, a badge, a cash reward and an id
\* that is not in the catalog
ActivateIds == {"boost_no_fee", "boost_double_profit", "badge_gold", "cash_small", "no_such_reward"}
\* the boosts of the catalog
BoostIds == {"boost_no_fee", "boost_double_profit"}

\* Activate(player, id): store.activate_reward for the session's player, for
\* any id (no page guard in front of it)
Activate(r) ==
  /\ LoggedIn
  /\ LET a == activate_reward(active[player_name], r, now) IN
       /\ active' = [active EXCEPT ![player_name] = a.active]
       /\ last' = Outcome("activate_reward", IF a.ok THEN "True" ELSE "False", a.msg)
  /\ UNCHANGED <<users, player_name, balance, portfolio, unlocked, points, owned, now,
                 trades, basis>>
  /\ UNCHANGED detailVars
  /\ UNCHANGED faultVars

\* Use boost(player, id): store.use_boost for the session's player
UseBoost(r) ==
  /\ LoggedIn
  /\ LET u == use_boost(active[player_name], owned[player_name], r) IN
       /\ active' = [active EXCEPT ![player_name] = u.active]
       /\ owned' = [owned EXCEPT ![player_name] = u.owned]
       /\ last' = Outcome("use_boost_call", IF u.ok THEN "True" ELSE "False", u.msg)
  /\ UNCHANGED <<users, player_name, balance, portfolio, unlocked, points, now, trades, basis>>
  /\ UNCHANGED detailVars
  /\ UNCHANGED faultVars

\* Is boost active(player, id): store.is_boost_active for the session's player
IsBoostActive(r) ==
  /\ LoggedIn
  /\ LET b == is_boost_active(active[player_name], owned[player_name], r, now) IN
       /\ active' = [active EXCEPT ![player_name] = b.active]
       /\ owned' = [owned EXCEPT ![player_name] = b.owned]
       /\ last' = Outcome("is_boost_active", IF b.ret THEN "True" ELSE "False", "")
  /\ UNCHANGED <<users, player_name, balance, portfolio, unlocked, points, now, trades, basis>>
  /\ UNCHANGED detailVars
  /\ UNCHANGED faultVars

\* ------------------------------------------------------------ game_logic.py
RECURSIVE GCD(_, _)
GCD(a, b) == IF b = 0 THEN a ELSE GCD(b, a % b)

\* the fraction num / den in lowest terms
Reduce(num, den) ==
  LET g == GCD(num, den) IN
    IF g = 0 THEN [num |-> 0, den |-> 1] ELSE [num |-> num \div g, den |-> den \div g]

\* the indices of the rows of a symbol: portfolio["Symbol"] == symbol
RowsOf(pf, s) == {i \in 1..Len(pf) : pf[i].Symbol = s}

\* symbol in portfolio["Symbol"].values
Holds(pf, s) == RowsOf(pf, s) # {}

\* row.<column>.values[0]: the first row of the symbol
FirstRow(pf, s) == pf[CHOOSE i \in RowsOf(pf, s) : \A j \in RowsOf(pf, s) : i <= j]

\* the day of an instant, standing for datetime.now().strftime("%Y-%m-%d")
Today(t) == t \div DAY

\* get_cash_balance: the stored balance; a name without a row gets one with
\* STARTING_BALANCE
get_cash_balance(us, name) ==
  IF load_user_data(us, name) = None
    THEN [balance |-> STARTING_BALANCE, users |-> save_user_data(us, name, STARTING_BALANCE)]
    ELSE [balance |-> load_user_data(us, name), users |-> us]

\* a mutant of the buy that overwrites the average with the latest price
bought_last_price(pf, s, q, price, date) ==
  IF Holds(pf, s)
    THEN [i \in 1..Len(pf) |->
            IF pf[i].Symbol = s
              THEN [Symbol |-> s, Quantity |-> FirstRow(pf, s).Quantity + q,
                    BuyNum |-> price, BuyDen |-> 1, BuyDate |-> date]
              ELSE pf[i]]
    ELSE Append(pf, [Symbol |-> s, Quantity |-> q, BuyNum |-> price, BuyDen |-> 1,
                     BuyDate |-> date])

\* a mutant of the buy that gives every purchase a row of its own
bought_new_row(pf, s, q, price, date) ==
  Append(pf, [Symbol |-> s, Quantity |-> q, BuyNum |-> price, BuyDen |-> 1,
              BuyDate |-> date])

\* the holdings after a buy of q at price (buy_stock and the Home page alike):
\* a held symbol gets the new quantity, the weighted average
\* (Quantity * Buy Price + price * q) / (Quantity + q) and today's date;
\* a symbol not held gets a new row
bought(pf, s, q, price, date) ==
  IF Holds(pf, s)
    THEN LET row == FirstRow(pf, s)
             new_qty == row.Quantity + q
             new_price == Reduce(row.Quantity * row.BuyNum + price * q * row.BuyDen,
                                 row.BuyDen * new_qty)
         IN [i \in 1..Len(pf) |->
               IF pf[i].Symbol = s
                 THEN [Symbol |-> s, Quantity |-> new_qty, BuyNum |-> new_price.num,
                       BuyDen |-> new_price.den, BuyDate |-> date]
                 ELSE pf[i]]
    ELSE Append(pf, [Symbol |-> s, Quantity |-> q, BuyNum |-> price, BuyDen |-> 1,
                     BuyDate |-> date])

\* portfolio[portfolio["Symbol"] != symbol]: the rows of the other symbols, in order
RECURSIVE Filter(_, _)
Filter(pf, s) ==
  IF pf = <<>> THEN <<>>
  ELSE IF Head(pf).Symbol = s THEN Filter(Tail(pf), s)
  ELSE <<Head(pf)>> \o Filter(Tail(pf), s)

\* a mutant of the sale that keeps a sold-out row with quantity 0
sold_keep_row(pf, s, q) ==
  [i \in 1..Len(pf) |->
     IF pf[i].Symbol = s THEN [pf[i] EXCEPT !.Quantity = FirstRow(pf, s).Quantity - q]
     ELSE pf[i]]

\* the holdings after a sale of q of a held symbol: the row goes when the
\* whole quantity is sold, otherwise only its Quantity changes
sold(pf, s, q) ==
  IF q = FirstRow(pf, s).Quantity
    THEN Filter(pf, s)
    ELSE [i \in 1..Len(pf) |->
            IF pf[i].Symbol = s THEN [pf[i] EXCEPT !.Quantity = FirstRow(pf, s).Quantity - q]
            ELSE pf[i]]

\* the running sum of buy costs of a row: None stays None
BasisAfterBuy(b, cost) == IF b = None THEN None ELSE b + cost

\* a mutant of buy_stock's affordability test that lets any order through
buy_affordable_always(cost, bal) == TRUE

\* buy_stock: "if cost > balance: return False"
buy_affordable(cost, bal) == ~(cost > bal)

\* Buy(player, symbol, quantity): game_logic.buy_stock for the session's player
BuyStock(s, q, price) ==
  /\ LoggedIn
  /\ trades < MaxTrades
  /\ Holds(portfolio[player_name], s) => FirstRow(portfolio[player_name], s).Quantity + q <= MaxHold
  /\ LET p == player_name
         cost == price * q
         g == get_cash_balance(users, p)
     IN
       IF ~buy_affordable(cost, g.balance)
         THEN /\ users' = g.users
              /\ last' = Outcome("buy_stock", "False", "Not enough balance")
              /\ UNCHANGED <<portfolio, trades, basis>>
         ELSE /\ portfolio' = [portfolio EXCEPT ![p] = bought(portfolio[p], s, q, price, Today(now))]
              /\ users' = update_cash_balance(g.users, <<p, g.balance - cost>>).users
              /\ trades' = trades + 1
              /\ basis' = [basis EXCEPT ![p][s] = BasisAfterBuy(@, cost)]
              /\ last' = Outcome("buy_stock", "True", "Bought")
  /\ UNCHANGED <<player_name, balance, unlocked, points, owned, active, now>>
  /\ UNCHANGED detailVars
  /\ UNCHANGED faultVars

\* a mutant of sell_stock without the test of the held quantity
sell_stock_unchecked(us, pf, args, price) ==
  IF Len(args) # 3
    THEN [users |-> us, portfolio |-> pf, ret |-> "raise", msg |-> "TypeError"]
  ELSE IF ~Holds(pf[args[1]], args[2])
    THEN [users |-> us, portfolio |-> pf, ret |-> "False", msg |-> "You don't own any shares"]
  ELSE [users |-> update_cash_balance(get_cash_balance(us, args[1]).users,
                    <<args[1], get_cash_balance(us, args[1]).balance + price * args[3]>>).users,
        portfolio |-> [pf EXCEPT ![args[1]] = sold(pf[args[1]], args[2], args[3])],
        ret |-> "True", msg |-> "Sold"]

\* sell_stock(player_name, symbol, quantity) has three positional parameters;
\* args is the argument list of the call
sell_stock(us, pf, args, price) ==
  IF Len(args) # 3
    THEN [users |-> us, portfolio |-> pf, ret |-> "raise", msg |-> "TypeError"]
  ELSE LET p == args[1]
           s == args[2]
           q == args[3]
           revenue == price * q
       IN IF ~Holds(pf[p], s)
            THEN [users |-> us, portfolio |-> pf, ret |-> "False", msg |-> "You don't own any shares"]
          ELSE IF q > FirstRow(pf[p], s).Quantity
            THEN [users |-> us, portfolio |-> pf, ret |-> "False", msg |-> "You only have"]
          ELSE [users |-> update_cash_balance(get_cash_balance(us, p).users,
                                              <<p, get_cash_balance(us, p).balance + revenue>>).users,
                portfolio |-> [pf EXCEPT ![p] = sold(pf[p], s, q)],
                ret |-> "True", msg |-> "Sold"]

\* Sell(player, symbol, quantity): game_logic.sell_stock for the session's player
SellStock(s, q, price) ==
  /\ LoggedIn
  /\ trades < MaxTrades
  /\ LET r == sell_stock(users, portfolio, <<player_name, s, q>>, price) IN
       /\ users' = r.users
       /\ portfolio' = r.portfolio
       /\ trades' = IF r.ret = "True" THEN trades + 1 ELSE trades
       /\ basis' = IF r.ret = "True"
                     THEN [basis EXCEPT ![player_name][s] =
                             IF Holds(r.portfolio[player_name], s) THEN None ELSE 0]
                     ELSE basis
       /\ last' = Outcome("sell_stock", r.ret, r.msg)
  /\ UNCHANGED <<player_name, balance, unlocked, points, owned, active, now>>
  /\ UNCHANGED detailVars
  /\ UNCHANGED faultVars

\* ------------------------------------------------------------ main.py, price cache
\* readings of the clock around six hours after the first
CacheInstants == {1, 21600, 21601, 21602}
\* lists of symbols load_price_cache is asked for
RequestSets == {{"AAPL"}, {"AAPL", "TCS.NS"}}

\* a mutant of the freshness test that still trusts a file exactly
\* REFRESH_INTERVAL old
cache_fresh_inclusive(file, t) == file.mtime # None /\ t - file.mtime <= REFRESH_INTERVAL

\* os.path.exists(PRICE_FILE) and time.time() - modified_time < REFRESH_INTERVAL
cache_fresh(file, t) == file.mtime # None /\ t - file.mtime < REFRESH_INTERVAL

\* the clock moves on to a later reading
CacheTick ==
  /\ \E t \in CacheInstants : t > now /\ now' = t
  /\ last' = Outcome("tick", "none", "")
  /\ UNCHANGED <<users, player_name, balance, portfolio, unlocked, points, owned,
                 active, trades, basis>>
  /\ UNCHANGED detailVars
  /\ UNCHANGED faultVars

\* prices_df = load_price_cache(symbols) at the top of a page run.  ok says
\* whether yf.download and the normalisation go through, got is the set of
\* columns the download has.  A fresh file is read and returned; otherwise
\* one download is made, merged with the columns of an existing file and
\* written; a failed download falls back to the file, else to an empty frame.
LoadPriceCache(symbols, ok, got) ==
  /\ LoggedIn
  /\ IF cache_fresh(price_file, now)
       THEN /\ prices_df' = price_file.cols \cap symbols
            /\ last' = Outcome("load_price_cache", "cached", "")
            /\ UNCHANGED <<price_file, fetches>>
       ELSE /\ fetches < MaxFetches
            /\ fetches' = fetches + 1
            /\ IF ok
                 THEN /\ price_file' = [mtime |-> now, cols |-> price_file.cols \cup got]
                      /\ prices_df' = (price_file.cols \cup got) \cap symbols
                      /\ last' = Outcome("load_price_cache", "fetched", "")
                 ELSE /\ prices_df' = price_file.cols \cap symbols
                      /\ last' = Outcome("load_price_cache", "fallback", "")
                      /\ UNCHANGED price_file
  /\ UNCHANGED <<users, player_name, balance, portfolio, unlocked, points, owned,
                 active, now, trades, basis>>
  /\ UNCHANGED <<dividend_state, credit_month, price_alert>>
  /\ UNCHANGED faultVars

\* ------------------------------------------------------------ main.py, Home page
\* quotes the Buy section resolves: a price, or 0 when neither the cache nor
\* the provider gives one ("if price:" is false for None and for 0)
BuyQuotes == Prices \cup {0}
\* portfolio values the valuation with live quotes comes to
PortfolioValues == {0, 50000}
\* the sets of extra unlocks a render's price data can call for
RenderExtras == {{}, {"moonshot"}}

\* fee = total_cost * TRANSACTION_FEE_RATE, the rate being rate / FEE_DEN
Fee(total_cost, rate) == (total_cost * rate) \div FEE_DEN

\* a mutant of the rate that ignores the No Fee Day boost
transaction_fee_rate_flat(act, own, t) == [rate |-> FEE_NUM, active |-> act, owned |-> own]

\* TRANSACTION_FEE_RATE of a Home page run: 0.005, or 0.0 when the boost slot
\* holds boost_no_fee and is_boost_active says so (which uses up an expired boost)
transaction_fee_rate(act, own, t) ==
  IF act.boost = "boost_no_fee"
    THEN LET b == is_boost_active(act, own, "boost_no_fee", t) IN
           [rate |-> IF b.ret THEN 0 ELSE FEE_NUM, active |-> b.active, owned |-> b.owned]
    ELSE [rate |-> FEE_NUM, active |-> act, owned |-> own]

\* unlock_achievement for each id of a sequence in turn (a StopIteration is
\* raised inside try/except at these call sites and the run goes on)
RECURSIVE unlock_each(_, _, _)
unlock_each(ul, pts, ids) ==
  IF ids = <<>> THEN [unlocked |-> ul, points |-> pts]
  ELSE LET u == unlock_achievement(ul, pts, Head(ids)) IN
         unlock_each(u.unlocked, u.points, Tail(ids))

\* the unlocks of the "Your Portfolio" section of a Home page run: nothing for
\* an empty table, else the value thresholds and then moonshot
portfolio_section(ul, pts, pf, pv, extra) ==
  IF pf = <<>> THEN [unlocked |-> ul, points |-> pts]
  ELSE unlock_each(ul, pts,
         (IF pv >= 50000 THEN <<"portfolio_50k">> ELSE <<>>)
         \o (IF pv >= 100000 THEN <<"portfolio_1lakh">> ELSE <<>>)
         \o (IF pv >= 500000 THEN <<"portfolio_5lakh">> ELSE <<>>)
         \o (IF "moonshot" \in extra THEN <<"moonshot">> ELSE <<>>))

\* a run of the Home page in which no button is pressed
HomeRender(pv, extra) ==
  /\ LoggedIn
  /\ LET p == player_name
         f == transaction_fee_rate(active[p], owned[p], now)
         a == portfolio_section(unlocked[p], points[p], portfolio[p], pv, extra)
     IN /\ active' = [active EXCEPT ![p] = f.active]
        /\ owned' = [owned EXCEPT ![p] = f.owned]
        /\ unlocked' = [unlocked EXCEPT ![p] = a.unlocked]
        /\ points' = [points EXCEPT ![p] = a.points]
        /\ last' = Outcome("home", "none", "")
  /\ UNCHANGED <<users, player_name, balance, portfolio, now, trades, basis>>
  /\ UNCHANGED detailVars
  /\ UNCHANGED faultVars

\* Home page, button "Confirm purchase" with symbol s, quantity q and the
\* resolved quote; at_low says the quote is the month's low of the cache
HomeBuy(s, q, price, at_low, pv, extra) ==
  /\ LoggedIn
  /\ trades < MaxTrades
  /\ Holds(portfolio[player_name], s) => FirstRow(portfolio[player_name], s).Quantity + q <= MaxHold
  /\ LET p == player_name
         f == transaction_fee_rate(active[p], owned[p], now)
         total_cost == price * q
         fee == Fee(total_cost, f.rate)
         t == unlock_each(unlocked[p], points[p],
                <<"first_trade">> \o (IF at_low THEN <<"perfect_timing">> ELSE <<>>))
         a == portfolio_section(unlocked[p], points[p], portfolio[p], pv, extra)
     IN /\ active' = [active EXCEPT ![p] = f.active]
        /\ owned' = [owned EXCEPT ![p] = f.owned]
        /\ IF price # 0 /\ total_cost + fee <= balance
             THEN /\ balance' = balance - (total_cost + fee)
                  /\ users' = save_user_data(users, p, balance')
                  /\ portfolio' = [portfolio EXCEPT ![p] = bought(portfolio[p], s, q, price, Today(now))]
                  /\ unlocked' = [unlocked EXCEPT ![p] = t.unlocked]
                  /\ points' = [points EXCEPT ![p] = t.points]
                  /\ trades' = trades + 1
                  /\ basis' = [basis EXCEPT ![p][s] = BasisAfterBuy(@, total_cost)]
                  /\ last' = Outcome("home_buy", "True", "Purchased")
             ELSE /\ unlocked' = [unlocked EXCEPT ![p] = a.unlocked]
                  /\ points' = [points EXCEPT ![p] = a.points]
                  /\ last' = Outcome("home_buy", "False", IF price # 0 THEN "Insufficient balance for this purchase."
                                                  ELSE "Invalid stock price.")
                  /\ UNCHANGED <<users, balance, portfolio, trades, basis>>
  /\ UNCHANGED <<player_name, now>>
  /\ UNCHANGED detailVars
  /\ UNCHANGED faultVars

\* Home page, button "Sell" with a symbol of the portfolio table and quantity
\* q: the run reaches sell_stock(sell_symbol, sell_qty), a call with two
\* arguments.  Were the sale reported, the fee block would run inside
\* try/except: its update_cash_balance calls take one argument and raise, so
\* it changes no balance, and first_trade is unlocked.
HomeSell(s, q, price, pv, extra) ==
  /\ LoggedIn
  /\ Holds(portfolio[player_name], s)
  /\ LET p == player_name
         f == transaction_fee_rate(active[p], owned[p], now)
         a == portfolio_section(unlocked[p], points[p], portfolio[p], pv, extra)
         r == sell_stock(users, portfolio, <<s, q>>, price)
         t == unlock_each(a.unlocked, a.points, <<"first_trade">>)
     IN /\ active' = [active EXCEPT ![p] = f.active]
        /\ owned' = [owned EXCEPT ![p] = f.owned]
        /\ users' = r.users
        /\ portfolio' = r.portfolio
        /\ IF r.ret = "True"
             THEN /\ unlocked' = [unlocked EXCEPT ![p] = t.unlocked]
                  /\ points' = [points EXCEPT ![p] = t.points]
             ELSE /\ unlocked' = [unlocked EXCEPT ![p] = a.unlocked]
                  /\ points' = [points EXCEPT ![p] = a.points]
        /\ last' = Outcome("home_sell", r.ret, r.msg)
  /\ UNCHANGED <<player_name, balance, now, trades, basis>>
  /\ UNCHANGED detailVars
  /\ UNCHANGED faultVars

\* ------------------------------------------------------------ main.py, Detailed Analysis page
\* a mutant of the split that doubles the quantities and leaves the prices
split_quantity_only(pf) ==
  [i \in 1..Len(pf) |-> [pf[i] EXCEPT !.Quantity = 2 * @]]

\* portfolio_df['Quantity'] *= 2; portfolio_df['Buy Price'] /= 2
split(pf) ==
  [i \in 1..Len(pf) |->
     [pf[i] EXCEPT !.Quantity = 2 * @,
                   !.BuyNum = Reduce(pf[i].BuyNum, 2 * pf[i].BuyDen).num,
                   !.BuyDen = Reduce(pf[i].BuyNum, 2 * pf[i].BuyDen).den]]

\* Detailed Analysis page, button "Simulate 2-for-1 Stock Split"; the section
\* is rendered once a symbol of the holdings is selected
SimulateSplit ==
  /\ LoggedIn
  /\ portfolio[player_name] # <<>>
  /\ \A i \in 1..Len(portfolio[player_name]) :
        2 * portfolio[player_name][i].Quantity <= MaxSplitQty
  /\ portfolio' = [portfolio EXCEPT ![player_name] = split(@)]
  /\ last' = Outcome("split", "none", "")
  /\ UNCHANGED <<users, player_name, balance, unlocked, points, owned, active, now,
                 trades, basis>>
  /\ UNCHANGED detailVars
  /\ UNCHANGED faultVars

\* readings of the clock on the first two days of a month and on the first
\* day of the month after it
DividendInstants == {1, 86401, 2678401}
\* totals the month's dividends of the holdings come to
Dividends == {0, 50}

\* f"{today.year}-{today.month:02d}" for the readings of the clock the model
\* uses: January 1970 has 31 days
MonthOf(t) == IF t <= 31 * DAY THEN "1970-01" ELSE "1970-02"

\* the clock moves on to a later day or month
MonthTick ==
  /\ \E t \in DividendInstants : t > now /\ now' = t
  /\ last' = Outcome("tick", "none", "")
  /\ UNCHANGED <<users, player_name, balance, portfolio, unlocked, points, owned,
                 active, trades, basis>>
  /\ UNCHANGED detailVars
  /\ UNCHANGED faultVars

\* Detailed Analysis page, button "Collect Dividends", total being the sum the
\* provider's data gives for the holdings this month.  The credit is followed
\* by update_cash_balance(total_dividend), a call with one argument, inside
\* the try block; the lines that store "last_month" come after that call.
CollectDividends(total) ==
  /\ LoggedIn
  /\ portfolio[player_name] # <<>>
  /\ balance + total <= MaxBalance
  /\ LET p == player_name
         credited == save_user_data(users, p, balance + total)
         w == update_cash_balance(credited, <<total>>)
     IN
       IF dividend_state = MonthOf(now)
         THEN /\ last' = Outcome("collect_dividends", "none",
                                 "You have already collected dividends this month.")
              /\ UNCHANGED <<users, balance, dividend_state, credit_month>>
       ELSE IF total > 0
         THEN /\ balance' = balance + total
              /\ credit_month' = [credit_month EXCEPT ![p] = MonthOf(now)]
              /\ IF w.raised
                   THEN /\ users' = credited
                        /\ dividend_state' = dividend_state
                        /\ last' = Outcome("collect_dividends", "none",
                                           "Dividend collection failed")
                   ELSE /\ users' = w.users
                        /\ dividend_state' = MonthOf(now)
                        /\ last' = Outcome("collect_dividends", "none", "Dividend payout")
       ELSE /\ last' = Outcome("collect_dividends", "none", "No dividends available this month.")
            /\ UNCHANGED <<users, balance, dividend_state, credit_month>>
  /\ UNCHANGED <<player_name, portfolio, unlocked, points, owned, active, now, trades, basis>>
  /\ UNCHANGED <<price_file, fetches, prices_df, price_alert>>
  /\ UNCHANGED faultVars

\* the two choices of the "Alert me when price..." radio
AlertDirections == {"goes above", "falls below"}
\* alert prices typed in, and current prices the cache or the provider gives
AlertPrices == {200, 250}
AlertQuotes == {100, 200, 300}

\* a mutant of the check that notifies and keeps the alert
alert_check_keep(alert, current, raised) ==
  IF alert = NoAlert THEN [alert |-> alert, ret |-> "none"]
  ELSE IF raised THEN [alert |-> alert, ret |-> "pending"]
  ELSE IF \/ (alert.direction = "goes above" /\ current >= alert.price)
          \/ (alert.direction = "falls below" /\ current <= alert.price)
    THEN [alert |-> alert, ret |-> "fired"]
  ELSE [alert |-> alert, ret |-> "pending"]

\* "Check for trigger": with 'price_alert' in the session state the current
\* price is looked up (raised: the lookup raises and the except passes); a
\* satisfied condition shows one toast and deletes the key
alert_check(alert, current, raised) ==
  IF alert = NoAlert THEN [alert |-> alert, ret |-> "none"]
  ELSE IF raised THEN [alert |-> alert, ret |-> "pending"]
  ELSE IF \/ (alert.direction = "goes above" /\ current >= alert.price)
          \/ (alert.direction = "falls below" /\ current <= alert.price)
    THEN [alert |-> NoAlert, ret |-> "fired"]
  ELSE [alert |-> alert, ret |-> "pending"]

\* Detailed Analysis page, button "Set Alert": the session's alert becomes the
\* new one, and the check of the same run follows
SetAlert(symbol, direction, price, current, raised) ==
  /\ LoggedIn
  /\ portfolio[player_name] # <<>>
  /\ LET c == alert_check([symbol |-> symbol, direction |-> direction, price |-> price],
                          current, raised)
     IN /\ price_alert' = c.alert
        /\ last' = Outcome("set_alert", c.ret, "")
  /\ UNCHANGED <<users, player_name, balance, portfolio, unlocked, points, owned,
                 active, now, trades, basis>>
  /\ UNCHANGED <<dividend_state, credit_month, price_file, fetches, prices_df>>
  /\ UNCHANGED faultVars

\* a run of the Detailed Analysis page in which no button is pressed
AlertRender(current, raised) ==
  /\ LoggedIn
  /\ portfolio[player_name] # <<>>
  /\ LET c == alert_check(price_alert, current, raised)
     IN /\ price_alert' = c.alert
        /\ last' = Outcome("alert_check", c.ret, "")
  /\ UNCHANGED <<users, player_name, balance, portfolio, unlocked, points, owned,
                 active, now, trades, basis>>
  /\ UNCHANGED <<dividend_state, credit_month, price_file, fetches, prices_df>>
  /\ UNCHANGED faultVars

\* ------------------------------------------------------------ specifications
\* login and logout
Session ==
  \/ \E n \in LoginNames : Login(n)
  \/ Logout

\* the achievement engine and the rewards store
NextStore ==
  \/ Session
  \/ \E a \in UnlockIds : Unlock(a)
  \/ \E n \in PointAmounts : AddPoints(n)
  \/ \E n \in PointAmounts : RedeemPoints(n)
  \/ \E r \in RewardIds : CanRedeem(r)
  \/ \E r \in RewardIds : StoreRedeem(r)
  \/ \E r \in RewardIds : StoreActivate(r)
  \/ \E r \in RewardIds : StoreUse(r)

SpecStore == Init /\ [][NextStore]_vars

\* purchases only: Buy of the trading engine and the Home page's purchase
NextBuy ==
  \/ Session
  \/ \E s \in Symbols, q \in 1..MaxQty, price \in Prices : BuyStock(s, q, price)
  \/ \E s \in Symbols, q \in 1..MaxQty, price \in BuyQuotes :
          HomeBuy(s, q, price, FALSE, 0, {})

SpecBuy == Init /\ [][NextBuy]_vars

\* the trading engine: Buy and Sell on successive days
NextLedger ==
  \/ Session
  \/ Tick
  \/ \E s \in Symbols, q \in 1..MaxQty, price \in Prices : BuyStock(s, q, price)
  \/ \E s \in Symbols, q \in 1..MaxQty, price \in Prices : SellStock(s, q, price)

SpecLedger == Init /\ [][NextLedger]_vars

\* the Home page, with the store's No Fee Day boost
NextHome ==
  \/ Session
  \/ Tick
  \/ \E pv \in PortfolioValues : HomeRender(pv, {})
  \/ \E s \in Symbols, q \in 1..MaxQty, price \in BuyQuotes, pv \in PortfolioValues :
          HomeBuy(s, q, price, FALSE, pv, {})
  \/ \E s \in Symbols, q \in 1..MaxQty, price \in Prices, pv \in PortfolioValues :
          HomeSell(s, q, price, pv, {})
  \/ StoreRedeem("boost_no_fee")
  \/ StoreActivate("boost_no_fee")

SpecHome == Init /\ [][NextHome]_vars

\* the store's boosts: redeemed with points, activated, used and queried over
\* the readings of the clock
NextBoost ==
  \/ Session
  \/ Tick
  \/ Unlock("portfolio_50k")
  \/ AddPoints(10)
  \/ \E r \in BoostIds : StoreRedeem(r)
  \/ \E r \in ActivateIds : Activate(r)
  \/ \E r \in BoostIds : UseBoost(r)
  \/ \E r \in BoostIds : IsBoostActive(r)

SpecBoost == Init /\ [][NextBoost]_vars

\* purchases on the Home page and splits of the holdings
NextSplit ==
  \/ Session
  \/ \E s \in Symbols, q \in 1..MaxQty, price \in Prices : HomeBuy(s, q, price, FALSE, 0, {})
  \/ SimulateSplit

SpecSplit == Init /\ [][NextSplit]_vars

\* dividends collected over days and months by a player with holdings
NextDividend ==
  \/ Session
  \/ MonthTick
  \/ \E s \in Symbols, q \in 1..MaxQty : HomeBuy(s, q, 200, FALSE, 0, {})
  \/ \E total \in Dividends : CollectDividends(total)

SpecDividend == Init /\ [][NextDividend]_vars

\* the price cache loaded over the hours
NextCache ==
  \/ Session
  \/ CacheTick
  \/ \E symbols \in RequestSets, ok \in BOOLEAN :
       \E got \in SUBSET symbols : LoadPriceCache(symbols, ok, got)

SpecCache == Init /\ [][NextCache]_vars

\* price alerts set and checked by a player with holdings
NextAlert ==
  \/ Session
  \/ \E s \in Symbols : HomeBuy(s, 1, 200, FALSE, 0, {})
  \/ \E symbol \in Symbols, direction \in AlertDirections, price \in AlertPrices,
        current \in AlertQuotes, raised \in BOOLEAN :
          SetAlert(symbol, direction, price, current, raised)
  \/ \E current \in AlertQuotes, raised \in BOOLEAN : AlertRender(current, raised)

SpecAlert == Init /\ [][NextAlert]_vars

\* players who log in, trade on the Home page, log out and come back
NextLogin ==
  \/ \E n \in ReturningNames : Login(n)
  \/ Logout
  \/ \E s \in Symbols, q \in 1..MaxQty, price \in Prices : HomeBuy(s, q, price, FALSE, 0, {})

SpecLogin == Init /\ [][NextLogin]_vars

\* ------------------------------------------------------------ claims
\* the session's player has an unlocked catalog achievement of the reward's tier
HasTier(r) ==
  \E a \in unlocked[player_name] \cap AchIds :
     ACHIEVEMENTS[a].difficulty = REWARDS[r].difficulty

\* everything a player's ledgers hold, the outcome record aside
Ledgers == <<users, player_name, balance, portfolio, unlocked, points, owned, active>>

\* C1: Unlock is idempotent.  The first Unlock of a catalog id returns the
\* achievement, adds the id and credits its points once; every later Unlock of
\* that id returns no achievement and leaves the unlock set and the point
\* ledger as they are.
C1_UnlockIdempotent ==
  [][\A a \in UnlockIds :
       Unlock(a) =>
         IF a \in unlocked[player_name]
           THEN /\ last'.ret = "None"
                /\ unlocked' = unlocked
                /\ points' = points
           ELSE /\ last'.ret = a
                /\ unlocked' = [unlocked EXCEPT ![player_name] = @ \cup {a}]
                /\ points' = [points EXCEPT ![player_name] = @ + ACHIEVEMENTS[a].points]]_vars

\* C1 witness: a second Unlock of first_trade returned no achievement and the
\* ledger holds its 10 points once
C1_Witness ==
  /\ last.op = "unlock" /\ last.ret = "None"
  /\ unlocked["alice"] = {"first_trade"}
  /\ points["alice"] = 10

\* C2: the point ledger is never negative, and Redeem points(amount) reports
\* success and subtracts exactly amount when the ledger holds at least amount,
\* and otherwise reports failure and leaves the ledger as it is.
C2_PointsNonNegative ==
  /\ [](\A n \in Players : points[n] >= 0)
  /\ [][\A n \in PointAmounts :
          RedeemPoints(n) =>
            IF points[player_name] >= n
              THEN /\ last'.ret = "True"
                   /\ points' = [points EXCEPT ![player_name] = @ - n]
              ELSE /\ last'.ret = "False"
                   /\ points' = points]_vars

\* C2 witness: a Redeem points call was refused on a ledger that is not empty
C2_Witness ==
  /\ last.op = "redeem_points" /\ last.ret = "False"
  /\ points["alice"] > 0

\* C3: Can redeem fails with InsufficientPoints whenever points < cost (tier or
\* no tier), fails with TierNotUnlocked when points >= cost and no unlocked
\* achievement has exactly the reward's tier, reports eligible otherwise, and
\* changes no state.
C3_CanRedeem ==
  [][\A r \in RewardIds :
       CanRedeem(r) =>
         /\ UNCHANGED Ledgers
         /\ points[player_name] < REWARDS[r].cost
              => last'.ret = "False" /\ last'.msg = "Not enough points."
         /\ points[player_name] >= REWARDS[r].cost /\ ~HasTier(r)
              => /\ last'.ret = "False"
                 /\ last'.msg = "You need at least one achievement of the tier unlocked."
         /\ points[player_name] >= REWARDS[r].cost /\ HasTier(r)
              => last'.ret = "True"]_vars

\* C3 witness: a player whose only unlock is Godly, with points enough for
\* every reward asked about, was told the tier is not unlocked
C3_Witness ==
  /\ last.op = "can_redeem"
  /\ last.msg = "You need at least one achievement of the tier unlocked."
  /\ unlocked["alice"] = {"portfolio_5lakh"}
  /\ points["alice"] = 100

\* C4 (as claimed): Redeem of a cash reward from the Store page, by a player
\* with the reward's tier unlocked and points >= cost, reports success, debits
\* exactly the cost, credits exactly the value to the cash balance and records
\* the reward as owned.
C4_CashRedeemCredits ==
  [][\A r \in RewardIds :
       (StoreRedeem(r) /\ REWARDS[r].type = "cash" /\ HasTier(r)
          /\ points[player_name] >= REWARDS[r].cost)
       => /\ last'.ret = "True"
          /\ points'[player_name] = points[player_name] - REWARDS[r].cost
          /\ users'[player_name] = users[player_name] + REWARDS[r].value
          /\ r \in owned'[player_name]]_vars

\* C5 (as claimed): whenever a Redeem reports failure, for a reward of any
\* type, the point ledger, the owned set and the cash balance are as they were
\* before the call.
C5_FailedRedeemMutatesNothing ==
  [][\A r \in RewardIds :
       (StoreRedeem(r) /\ last'.ret = "False")
         => points' = points /\ owned' = owned /\ users' = users /\ balance' = balance]_vars

\* the first row of symbol s in the session player's holdings, before and
\* after a step
Held(s) == FirstRow(portfolio[player_name], s)

\* what a buy of q at price has to leave in the row of s: on a held symbol
\* the summed quantity and the weighted average (as an equation of fractions),
\* on a symbol not held a row of q at price
WeightedAverage(s, q, price) ==
  LET new == FirstRow(portfolio'[player_name], s) IN
    /\ Holds(portfolio'[player_name], s)
    /\ IF Holds(portfolio[player_name], s)
         THEN /\ new.Quantity = Held(s).Quantity + q
              /\ new.BuyNum * (Held(s).Quantity + q) * Held(s).BuyDen
                   = (Held(s).Quantity * Held(s).BuyNum + q * price * Held(s).BuyDen) * new.BuyDen
         ELSE /\ new.Quantity = q
              /\ new.BuyNum = price * new.BuyDen

\* C6: a buy of q at p on a row of Q at P leaves Q+q at (Q*P + q*p)/(Q+q), a
\* buy of a symbol not held leaves a row of q at p, and so, with no sale in
\* between, quantity x buy price of a row equals the sum of its trades' costs.
C6_WeightedAverageBasis ==
  /\ [](\A n \in Players, s \in Symbols :
          /\ basis[n][s] # None
          /\ Holds(portfolio[n], s) <=> basis[n][s] > 0
          /\ Holds(portfolio[n], s) =>
               FirstRow(portfolio[n], s).Quantity * FirstRow(portfolio[n], s).BuyNum
                 = basis[n][s] * FirstRow(portfolio[n], s).BuyDen)
  /\ [][\A s \in Symbols, q \in 1..MaxQty, price \in Prices :
          ((BuyStock(s, q, price) \/ HomeBuy(s, q, price, FALSE, 0, {})) /\ last'.ret = "True")
            => WeightedAverage(s, q, price)]_vars

\* C6 witness: 1 @ 6000 and 2 @ 200 of one symbol stand as 3 @ 6400/3, basis 6400
C6_Witness ==
  \E s \in Symbols :
    /\ Holds(portfolio["alice"], s)
    /\ FirstRow(portfolio["alice"], s).Quantity = 3
    /\ FirstRow(portfolio["alice"], s).BuyNum = 6400
    /\ FirstRow(portfolio["alice"], s).BuyDen = 3
    /\ basis["alice"][s] = 6400

\* C7: a Buy whose cost price x quantity exceeds the cash balance returns
\* (False, message) and leaves the holdings and the cash balance as they were;
\* the Home page's purchase refuses such an order in the same way.
C7_BuyInsufficientFunds ==
  [][\A s \in Symbols, q \in 1..MaxQty, price \in Prices :
       /\ (BuyStock(s, q, price) /\ price * q > users[player_name])
            => /\ last'.ret = "False" /\ last'.msg = "Not enough balance"
               /\ portfolio' = portfolio /\ users' = users /\ balance' = balance
       /\ (HomeBuy(s, q, price, FALSE, 0, {}) /\ price * q > balance)
            => /\ last'.ret = "False"
               /\ portfolio' = portfolio /\ users' = users /\ balance' = balance]_vars

\* C7 witness: a Buy was refused for a player who holds shares
C7_Witness ==
  /\ last.op = "buy_stock" /\ last.ret = "False"
  /\ portfolio["alice"] # <<>>
  /\ users["alice"] < 6000

\* C8: Sell of a symbol without a row fails with NotHeld, Sell of more than
\* the held quantity fails with InsufficientQuantity, and both leave the
\* holdings and the cash balance as they were.
C8_RejectedSell ==
  [][\A s \in Symbols, q \in 1..MaxQty, price \in Prices :
       SellStock(s, q, price) =>
         /\ ~Holds(portfolio[player_name], s)
              => /\ last'.ret = "False" /\ last'.msg = "You don't own any shares"
                 /\ portfolio' = portfolio /\ users' = users /\ balance' = balance
         /\ (Holds(portfolio[player_name], s) /\ q > Held(s).Quantity)
              => /\ last'.ret = "False" /\ last'.msg = "You only have"
                 /\ portfolio' = portfolio /\ users' = users /\ balance' = balance]_vars

\* C8 witness: a Sell of 2 was refused on a row of 1
C8_Witness ==
  /\ last.op = "sell_stock" /\ last.msg = "You only have"
  /\ \E s \in Symbols : Holds(portfolio["alice"], s) /\ FirstRow(portfolio["alice"], s).Quantity = 1

\* C9: a Sell of q <= Q at price p succeeds; it removes the row when q = Q and
\* otherwise changes only the row's quantity to Q - q (buy price and buy date
\* stay); rows of other symbols stay; the cash balance grows by exactly p x q.
C9_SuccessfulSell ==
  [][\A s \in Symbols, q \in 1..MaxQty, price \in Prices :
       (SellStock(s, q, price) /\ Holds(portfolio[player_name], s) /\ q <= Held(s).Quantity)
       => /\ last'.ret = "True"
          /\ IF q = Held(s).Quantity
               THEN ~Holds(portfolio'[player_name], s)
               ELSE /\ Holds(portfolio'[player_name], s)
                    /\ FirstRow(portfolio'[player_name], s)
                         = [Held(s) EXCEPT !.Quantity = Held(s).Quantity - q]
                    /\ Len(portfolio'[player_name]) = Len(portfolio[player_name])
          /\ Filter(portfolio'[player_name], s) = Filter(portfolio[player_name], s)
          /\ \A n \in Players \ {player_name} : portfolio'[n] = portfolio[n]
          /\ users' = [users EXCEPT ![player_name] = @ + price * q]]_vars

\* C9 witness: on the day after the buys, one share of a row of 2 was sold
\* while another symbol is held; the row keeps the buy date of the day before
C9_Witness ==
  /\ last.op = "sell_stock" /\ last.ret = "True"
  /\ Today(now) = 1
  /\ Len(portfolio["alice"]) = 2
  /\ \A i \in 1..2 : portfolio["alice"][i].Quantity = 1 /\ portfolio["alice"][i].BuyDate = 0
  /\ basis["alice"]["AAPL"] = None

\* the No Fee Day boost is active for the session's player
NoFeeActive ==
  /\ active[player_name].boost = "boost_no_fee"
  /\ active[player_name].boost_time = 0 \/ now - active[player_name].boost_time <= DAY

\* the fee due on a trade of the given notional: 0.5%, or 0 under No Fee Day
FeeDue(notional) == IF NoFeeActive THEN 0 ELSE (notional * 5) \div 1000

\* C10 (as claimed): every Home page purchase that goes through takes price x
\* quantity plus the fee from the cash balance, and every Home page sale of a
\* held quantity goes through and leaves the cash balance higher by price x
\* quantity less the fee; the fee is 0.5% of price x quantity, or 0 while the
\* No Fee Day boost is active.
C10_HomeTradeFee ==
  [][\A s \in Symbols, q \in 1..MaxQty, price \in Prices, pv \in PortfolioValues :
       /\ (HomeBuy(s, q, price, FALSE, pv, {}) /\ last'.ret = "True")
            => balance' = balance - (price * q + FeeDue(price * q))
       /\ (HomeSell(s, q, price, pv, {}) /\ q <= Held(s).Quantity)
            => /\ last'.ret = "True"
               /\ users'[player_name] = users[player_name] + price * q - FeeDue(price * q)]_vars

\* the purchase half of C10 on its own: the fee of a Home page purchase
C10_HomeBuyFee ==
  [][\A s \in Symbols, q \in 1..MaxQty, price \in Prices, pv \in PortfolioValues :
       (HomeBuy(s, q, price, FALSE, pv, {}) /\ last'.ret = "True")
         => balance' = balance - (price * q + FeeDue(price * q))]_vars

\* a Home page purchase went through free of fee under No Fee Day
C10_HomeBuyFeeWitness ==
  /\ last.op = "home_buy" /\ last.ret = "True"
  /\ active["alice"].boost = "boost_no_fee"
  /\ balance = 10000 - 201 - 200

\* seconds since the activation stored in the session player's active mapping
Elapsed == now - active[player_name].boost_time

\* C11 (as claimed): Is boost active(id) is true while the boost slot holds id
\* and fewer than 86,400 seconds have passed since the activation, false from
\* 86,400 seconds on (at exactly 86,400 too), and false whenever the slot does
\* not hold id.
C11_BoostWindow ==
  [][\A r \in BoostIds :
       IsBoostActive(r) =>
         /\ active[player_name].boost # r => last'.ret = "False"
         /\ (active[player_name].boost = r /\ Elapsed < 86400) => last'.ret = "True"
         /\ (active[player_name].boost = r /\ Elapsed >= 86400) => last'.ret = "False"]_vars

\* C12 (as claimed): whenever Is boost active(id) finds the boost slot holding
\* id with 86,400 seconds or more elapsed since the activation, id is
\* afterwards in neither the boost slot nor the owned set.
C12_ExpiryConsumes ==
  [][\A r \in BoostIds :
       (IsBoostActive(r) /\ active[player_name].boost = r /\ Elapsed >= 86400)
         => /\ active'[player_name].boost # r
            /\ r \notin owned'[player_name]]_vars

\* what the expiry does do: an owned boost found more than 86,400 seconds
\* after its activation leaves the slot and the owned set together
C12_ExpiryConsumesOwned ==
  [][\A r \in BoostIds :
       (IsBoostActive(r) /\ active[player_name].boost = r /\ r \in owned[player_name]
          /\ Elapsed > 86400)
         => /\ last'.ret = "False"
            /\ active'[player_name].boost = ""
            /\ owned'[player_name] = owned[player_name] \ {r}]_vars

\* an owned boost was consumed by a query past its window
C12_ExpiryConsumesOwnedWitness ==
  /\ last.op = "is_boost_active" /\ last.ret = "False"
  /\ active["alice"].boost = "" /\ active["alice"].boost_time = 1
  /\ now = 86402
  /\ owned["alice"] = {}
  /\ unlocked["alice"] = {"portfolio_50k"} /\ points["alice"] = 0

\* C13: Use boost(id) succeeds when the boost slot holds id and id is owned,
\* and then id is in neither the slot nor the owned set while the badge, theme
\* and analytics slots and every other owned id stay; otherwise it fails with
\* NotActive and leaves the active mapping and the owned set as they were.
C13_UseBoost ==
  [][\A r \in BoostIds :
       UseBoost(r) =>
         IF active[player_name].boost = r /\ r \in owned[player_name]
           THEN /\ last'.ret = "True"
                /\ active'[player_name].boost # r
                /\ r \notin owned'[player_name]
                /\ active'[player_name].badge = active[player_name].badge
                /\ active'[player_name].theme = active[player_name].theme
                /\ active'[player_name].analytics = active[player_name].analytics
                /\ owned'[player_name] \cup {r} = owned[player_name]
           ELSE /\ last'.ret = "False" /\ last'.msg = "Boost not active or not owned."
                /\ active' = active
                /\ owned' = owned]_vars

\* C13 witness: No Fee Day was used while a badge is active and another boost
\* is owned; both are still there
C13_Witness ==
  /\ last.op = "use_boost_call" /\ last.ret = "True"
  /\ active["alice"].boost = "" /\ active["alice"].badge = "badge_gold"
  /\ owned["alice"] = {"boost_double_profit"}

\* C14 (as claimed): a boost is used up by the first trade it applies to: after
\* a Home page purchase that went through at the 0% rate of an active No Fee
\* Day boost, the boost is neither in the boost slot nor owned, so that the
\* next trade pays the 0.5% fee.
C14_BoostOneTimeUse ==
  [][\A s \in Symbols, q \in 1..MaxQty, price \in Prices, pv \in PortfolioValues :
       (HomeBuy(s, q, price, FALSE, pv, {}) /\ last'.ret = "True" /\ NoFeeActive)
         => /\ active'[player_name].boost # "boost_no_fee"
            /\ "boost_no_fee" \notin owned'[player_name]]_vars

\* C15 (as claimed): Activate(id) fails with RewardNotFound for an id outside
\* the catalog, with NotActivatable for a cash reward, and with NotOwned for a
\* catalog reward the player does not own; a failing call leaves the player's
\* active mapping as it was.
C15_ActivateRejects ==
  [][\A r \in ActivateIds :
       Activate(r) =>
         /\ r \notin AllRewardIds
              => /\ last'.ret = "False" /\ last'.msg = "Reward not found."
                 /\ active' = active
         /\ (r \in AllRewardIds /\ REWARDS[r].type = "cash")
              => /\ last'.ret = "False" /\ last'.msg = "Cannot activate this reward."
                 /\ active' = active
         /\ (r \in AllRewardIds /\ REWARDS[r].type # "cash" /\ r \notin owned[player_name])
              => /\ last'.ret = "False"
                 /\ active' = active]_vars

\* the two rejections activate_reward does make: an id outside the catalog and
\* a cash reward
C15_ActivateRejectsUnknownAndCash ==
  [][\A r \in ActivateIds :
       (Activate(r) /\ (r \notin AllRewardIds \/ r = "cash_small"))
         => /\ last'.ret = "False"
            /\ last'.msg = IF r \in AllRewardIds THEN "Cannot activate this reward."
                           ELSE "Reward not found."
            /\ active' = active]_vars

\* C16: a 2-for-1 split doubles the quantity and halves the buy price of every
\* row, keeps each row's symbol and buy date, the number and order of the rows
\* and the cash balance, and so keeps quantity x buy price of every row; with
\* any number of splits among the purchases, quantity x buy price of a row
\* still equals the sum of its purchase costs.
C16_SplitPreservesBasis ==
  /\ [][SimulateSplit =>
          LET old == portfolio[player_name]
              new == portfolio'[player_name]
          IN /\ Len(new) = Len(old)
             /\ \A i \in 1..Len(old) :
                  /\ new[i].Symbol = old[i].Symbol
                  /\ new[i].BuyDate = old[i].BuyDate
                  /\ new[i].Quantity = 2 * old[i].Quantity
                  /\ 2 * new[i].BuyNum * old[i].BuyDen = old[i].BuyNum * new[i].BuyDen
                  /\ new[i].Quantity * new[i].BuyNum * old[i].BuyDen
                       = old[i].Quantity * old[i].BuyNum * new[i].BuyDen
             /\ \A n \in Players \ {player_name} : portfolio'[n] = portfolio[n]
             /\ balance' = balance /\ users' = users]_vars
  /\ [](\A n \in Players, s \in Symbols :
          Holds(portfolio[n], s) =>
            FirstRow(portfolio[n], s).Quantity * FirstRow(portfolio[n], s).BuyNum
              = basis[n][s] * FirstRow(portfolio[n], s).BuyDen)

\* C16 witness: a row bought as 1 @ 200 stands as 8 @ 25 after three splits,
\* next to a second row, with the basis 200
C16_Witness ==
  /\ last.op = "split"
  /\ Len(portfolio["alice"]) = 2
  /\ \E i \in 1..2 :
       /\ portfolio["alice"][i].Quantity = 8
       /\ portfolio["alice"][i].BuyNum = 25 /\ portfolio["alice"][i].BuyDen = 1
       /\ basis["alice"][portfolio["alice"][i].Symbol] = 200

\* C17 (as claimed): among the Collect dividends calls of one player within one
\* calendar month at most one credits cash: a call made in a month in which an
\* earlier call credited a positive total leaves the cash balance as it was; a
\* call whose total is zero credits nothing and does not advance the throttle.
C17_DividendThrottle ==
  [][\A total \in Dividends :
       CollectDividends(total) =>
         /\ credit_month[player_name] = MonthOf(now)
              => balance' = balance /\ users' = users
         /\ total = 0
              => balance' = balance /\ users' = users /\ dividend_state' = dividend_state]_vars

\* the part of the throttle that holds: a call whose total is zero credits
\* nothing and stores no month
C17_ZeroTotalCreditsNothing ==
  [][CollectDividends(0) =>
       balance' = balance /\ users' = users /\ dividend_state' = dividend_state]_vars

Satisfied(direction, current, target) ==
  \/ (direction = "goes above" /\ current >= target)
  \/ (direction = "falls below" /\ current <= target)

\* C19: the session holds at most one alert; Set alert puts the new alert in
\* the place of any pending one; a check that finds the condition satisfied
\* (goes above: current >= target, falls below: current <= target) notifies
\* once and clears the alert, so that later renders notify no more; a check
\* that does not find it satisfied leaves the alert as it is.
C19_AlertOneShot ==
  /\ [][\A symbol \in Symbols, direction \in AlertDirections, price \in AlertPrices,
           current \in AlertQuotes, raised \in BOOLEAN :
          SetAlert(symbol, direction, price, current, raised) =>
            IF ~raised /\ Satisfied(direction, current, price)
              THEN last'.ret = "fired" /\ price_alert' = NoAlert
              ELSE /\ last'.ret = "pending"
                   /\ price_alert' = [symbol |-> symbol, direction |-> direction,
                                      price |-> price]]_vars
  /\ [][\A current \in AlertQuotes, raised \in BOOLEAN :
          AlertRender(current, raised) =>
            IF price_alert = NoAlert
              THEN last'.ret = "none" /\ price_alert' = NoAlert
            ELSE IF ~raised /\ Satisfied(price_alert.direction, current, price_alert.price)
              THEN last'.ret = "fired" /\ price_alert' = NoAlert
            ELSE last'.ret = "pending" /\ price_alert' = price_alert]_vars

\* C19 witness: a render found the pending alert satisfied, notified and
\* cleared it
C19_Witness ==
  /\ last.op = "alert_check" /\ last.ret = "fired"
  /\ price_alert = NoAlert

\* C20 (as claimed): a login under a name with a balance record adopts the
\* stored balance as the session balance and leaves the records as they are; a
\* login under a name without a record creates the one record of that name
\* with 10,000 and sets the session balance to 10,000.
C20_Login ==
  [][\A n \in ReturningNames :
       Login(n) =>
         /\ player_name' = n
         /\ IF users[n] # None
              THEN balance' = users[n] /\ users' = users
              ELSE /\ balance' = 10000 /\ users'[n] = 10000
                   /\ \A m \in Players \ (NaNames \cup {n}) : users'[m] = users[m]]_vars

\* the login of a name that read_csv reads back as written
C20_LoginReadableName ==
  [][\A n \in ReturningNames \ NaNames :
       Login(n) =>
         /\ player_name' = n
         /\ IF users[n] # None
              THEN balance' = users[n] /\ users' = users
              ELSE /\ balance' = 10000 /\ users'[n] = 10000
                   /\ \A m \in Players \ (NaNames \cup {n}) : users'[m] = users[m]]_vars

\* a returning player with a readable name got the stored balance back
C20_LoginReadableNameWitness ==
  /\ last.op = "login" /\ player_name = "alice"
  /\ balance = 9799 /\ users["alice"] = 9799

\* ------------------------------------------------------------ players side by side
\* trades made where the purchases are kept few
MaxBoundedTrades == 2

\* a purchase on the Home page while the trades are few
BoundedBuy == trades < MaxBoundedTrades /\ HomeBuy("AAPL", 1, 200, FALSE, 0, {})

\* two players, one after the other in the same data directory: each logs
\* in, trades, unlocks, activates, collects, splits and logs out
NextIsolation ==
  \/ \E n \in ReturningNames : Login(n)
  \/ Logout
  \/ BoundedBuy
  \/ SellStock("AAPL", 1, 200)
  \/ Unlock("first_trade")
  \/ Activate("boost_no_fee")
  \/ CollectDividends(50)
  \/ SimulateSplit

SpecIsolation == Init /\ [][NextIsolation]_vars

\* the player a step is made for
Actor == IF player_name # "" THEN player_name ELSE player_name'

\* a player's persisted records other than the balance row
Files(n) == <<portfolio[n], unlocked[n], points[n], owned[n], active[n]>>

\* C21: per-player isolation.  No step made for one player changes a persisted
\* record of another player: the balance row, the holdings, the unlock set,
\* the point ledger, the owned and the active rewards; and a player who has not
\* collected dividends in the month is not told they had.
C21_Isolation ==
  [][/\ \A n \in Players \ {Actor} :
           /\ users'[n] = users[n]
           /\ Files(n)' = Files(n)
     /\ \A total \in Dividends :
           CollectDividends(total) /\ credit_month[player_name] # MonthOf(now)
             => last'.msg # "You have already collected dividends this month."]_vars

\* C21, the part that holds: the files named after the player are left alone
\* by the other players' steps, so are the balance rows under names that
\* users.csv gives back as text, and nobody is told of a collection they did
\* not make
C21_IsolationOfReadableNames ==
  [][/\ \A n \in Players \ {Actor} :
           /\ n \notin NaNames => users'[n] = users[n]
           /\ Files(n)' = Files(n)
     /\ \A total \in Dividends :
           CollectDividends(total) /\ credit_month[player_name] # MonthOf(now)
             => last'.msg # "You have already collected dividends this month."]_vars

\* a second player collects a dividend in a month in which alice has collected
\* hers, and alice's records are as she left them
C21_IsolationOfReadableNamesWitness ==
  /\ player_name = "NA"
  /\ last.op = "collect_dividends"
  /\ last.msg = "Dividend collection failed"
  /\ credit_month["alice"] = MonthOf(now)
  /\ users["alice"] = 9849

\* ------------------------------------------------------------ holdings table
\* the trading engine's buys and sells, and splits of the holdings
NextHoldings ==
  \/ Session
  \/ \E s \in Symbols, q \in 1..MaxQty : BuyStock(s, q, 200)
  \/ \E s \in Symbols, q \in 1..MaxQty : SellStock(s, q, 200)
  \/ SimulateSplit

SpecHoldings == Init /\ [][NextHoldings]_vars

\* at most one row per symbol and a positive quantity in every row
WellFormed(pf) ==
  \A i, j \in 1..Len(pf) :
     /\ pf[i].Quantity > 0
     /\ i # j => pf[i].Symbol # pf[j].Symbol

\* C22: the holdings table is well formed.  After any buys, sells and splits
\* every player's table has at most one row per symbol and every row has a
\* quantity above zero; and a symbol's row leaves the table exactly in a
\* successful sale of the whole quantity held.
C22_Holdings ==
  /\ [](\A n \in Players : WellFormed(portfolio[n]))
  /\ [][\A n \in Players, s \in Symbols :
          (Holds(portfolio[n], s) /\ ~Holds(portfolio'[n], s))
            <=> /\ player_name = n
                /\ Holds(portfolio[n], s)
                /\ \E q \in 1..MaxSplitQty, price \in Prices :
                      /\ SellStock(s, q, price)
                      /\ last'.ret = "True"
                      /\ q = FirstRow(portfolio[n], s).Quantity]_vars

\* one share bought, doubled by a split, and both shares sold: the row is gone
C22_Witness ==
  /\ last.op = "sell_stock" /\ last.ret = "True"
  /\ trades = 2
  /\ portfolio["alice"] = <<>>
  /\ users["alice"] = 10200

\* ------------------------------------------------------------ active slots
\* the categories that have a slot in the active mapping
SlotTypes == {"badge", "theme", "boost", "analytics"}

ProviderInfos ==
  {[kind |-> k, price |-> 0] : k \in {"raise", "no_field", "null"}}
    \cup {[kind |-> "price", price |-> c] : c \in AlertQuotes}
\* what latest_price_from_cache gives: None or the last price of the column
CachedQuotes == {None} \cup AlertQuotes

\* current = latest_price_from_cache(...); if current is None:
\* current = float(info.get("regularMarketPrice", 0)); float(None) raises
alert_lookup(cached, info) ==
  IF cached # None THEN [current |-> cached, raised |-> FALSE]
  ELSE IF info.kind \in {"raise", "null"} THEN [current |-> 0, raised |-> TRUE]
  ELSE IF info.kind = "no_field" THEN [current |-> 0, raised |-> FALSE]
  ELSE [current |-> info.price, raised |-> FALSE]

\* neither the cache nor the provider yields a price
Unresolved(cached, info) == cached = None /\ info.kind # "price"

\* price alerts set and checked with the price looked up in the cache and
\* then at the provider
NextAlertLookup ==
  \/ Session
  \/ \E s \in Symbols : HomeBuy(s, 1, 200, FALSE, 0, {})
  \/ \E symbol \in Symbols, direction \in AlertDirections, price \in AlertPrices,
        cached \in CachedQuotes, info \in ProviderInfos :
          SetAlert(symbol, direction, price,
                   alert_lookup(cached, info).current, alert_lookup(cached, info).raised)
  \/ \E cached \in CachedQuotes, info \in ProviderInfos :
          AlertRender(alert_lookup(cached, info).current, alert_lookup(cached, info).raised)

SpecAlertLookup == Init /\ [][NextAlertLookup]_vars

\* C24: an alert check without a price.  When neither the cache nor the
\* provider yields a price for the alert's symbol (the provider's answer
\* without a market-price field included), the check of a pending alert is
\* skipped: nothing is notified and the alert stays as it was, for "goes
\* above" and for "falls below".
C24_UnresolvedPriceSkips ==
  [][\A cached \in CachedQuotes, info \in ProviderInfos :
       ( /\ Unresolved(cached, info)
         /\ price_alert # NoAlert
         /\ AlertRender(alert_lookup(cached, info).current, alert_lookup(cached, info).raised) )
         => /\ last'.ret = "pending"
            /\ price_alert' = price_alert]_vars

\* C24, the part that holds: the check is skipped when the provider's lookup
\* raises or gives a null price, and an alert for "goes above" stays pending
\* in every unresolved case
C24_UnresolvedPriceSkipsAbove ==
  [][\A cached \in CachedQuotes, info \in ProviderInfos :
       ( /\ Unresolved(cached, info)
         /\ price_alert # NoAlert
         /\ info.kind # "no_field" \/ price_alert.direction = "goes above"
         /\ AlertRender(alert_lookup(cached, info).current, alert_lookup(cached, info).raised) )
         => /\ last'.ret = "pending"
            /\ price_alert' = price_alert]_vars

\* a "falls below" alert that a check has left pending
C24_UnresolvedPriceSkipsAboveWitness ==
  /\ last.op = "alert_check" /\ last.ret = "pending"
  /\ price_alert = [symbol |-> "AAPL", direction |-> "falls below", price |-> 200]

\* ------------------------------------------------------------ damaged files
\* the per-player files and the dividend state file
FileKinds == {"achievements", "points", "owned_rewards", "active_rewards", "dividend_state"}

\* the content of a file of the session's player stops being parseable (a
\* write cut short after open(..., "w") truncated the file, or an edit by hand)
Damage(kind) ==
  /\ LoggedIn
  /\ <<player_name, kind>> \notin malformed
  /\ malformed' = malformed \cup {<<player_name, kind>>}
  /\ last' = Outcome("damage", "none", kind)
  /\ UNCHANGED <<users, player_name, balance, portfolio, unlocked, points, owned,
                 active, now, trades, basis, sessions>>
  /\ UNCHANGED detailVars

\* load_achievements: json.load(f) with nothing around it
load_achievements(bad, ul) ==
  IF bad THEN [raised |-> TRUE, empty |-> FALSE]
  ELSE [raised |-> FALSE, empty |-> ul = {}]

\* get_points: int(f.read().strip()) with nothing around it
get_points(bad, pts) ==
  IF bad THEN [raised |-> TRUE, empty |-> FALSE]
  ELSE [raised |-> FALSE, empty |-> pts = 0]

\* get_owned_rewards: json.load(f) with nothing around it
get_owned_rewards(bad, own) ==
  IF bad THEN [raised |-> TRUE, empty |-> FALSE]
  ELSE [raised |-> FALSE, empty |-> own = {}]

\* get_active_rewards: json.load(f) with nothing around it
get_active_rewards(bad, act) ==
  IF bad THEN [raised |-> TRUE, empty |-> FALSE]
  ELSE [raised |-> FALSE, empty |-> act = NoActive]

\* Detailed Analysis page: json.loads(content) inside
\* try ... except (json.JSONDecodeError, FileNotFoundError): dividend_state = {}
read_dividend_state(bad, st) ==
  IF bad THEN [raised |-> FALSE, empty |-> TRUE]
  ELSE [raised |-> FALSE, empty |-> st = ""]

\* the read of a kind of file for the session's player
read_file(kind) ==
  LET p == player_name
      bad == <<p, kind>> \in malformed
  IN CASE kind = "achievements" -> load_achievements(bad, unlocked[p])
       [] kind = "points" -> get_points(bad, points[p])
       [] kind = "owned_rewards" -> get_owned_rewards(bad, owned[p])
       [] kind = "active_rewards" -> get_active_rewards(bad, active[p])
       [] kind = "dividend_state" -> read_dividend_state(bad, dividend_state)

\* a page that reads one kind of file and shows what it holds: the unlocked
\* achievements, the points, the owned rewards, the active rewards, the month
\* of the last dividend collection
ReadFile(kind) ==
  /\ LoggedIn
  /\ LET r == read_file(kind) IN
       last' = Outcome(kind, IF r.raised THEN "raise" ELSE "none",
                       IF r.raised THEN "not parsed" ELSE IF r.empty THEN "empty" ELSE "stored")
  /\ UNCHANGED <<users, player_name, balance, portfolio, unlocked, points, owned,
                 active, now, trades, basis>>
  /\ UNCHANGED detailVars
  /\ UNCHANGED faultVars

\* Unlock and Activate while every file of the player parses
IntactUnlock(a) == (\A k \in FileKinds : <<player_name, k>> \notin malformed) /\ Unlock(a)
IntactActivate(r) == (\A k \in FileKinds : <<player_name, k>> \notin malformed) /\ Activate(r)

\* files that get damaged and are read afterwards
NextDamage ==
  \/ Session
  \/ IntactUnlock("first_trade")
  \/ IntactActivate("badge_gold")
  \/ \E kind \in FileKinds : Damage(kind)
  \/ \E kind \in FileKinds : ReadFile(kind)

SpecDamage == Init /\ [][NextDamage]_vars

\* C25: malformed files.  A read of a per-player file (unlock set, point
\* ledger, owned rewards, active rewards, dividend state) whose content does
\* not parse gives what a missing file gives, the empty value, and raises
\* nothing.
C25_MalformedReadsAsEmpty ==
  [][\A kind \in FileKinds :
       (ReadFile(kind) /\ <<player_name, kind>> \in malformed)
         => /\ last'.ret # "raise"
            /\ last'.msg = "empty"]_vars

\* C25, the part that holds: the dividend state file is read inside a try
\* block, and its malformed content reads as the empty mapping
C25_MalformedDividendState ==
  [][(ReadFile("dividend_state") /\ <<player_name, "dividend_state">> \in malformed)
       => /\ last'.ret # "raise"
          /\ last'.msg = "empty"]_vars

\* a read of the damaged dividend state file that gave the empty mapping
C25_MalformedDividendStateWitness ==
  /\ last = Outcome("dividend_state", "none", "empty")
  /\ <<"alice", "dividend_state">> \in malformed

\* ------------------------------------------------------------ sessions side by side
\* a mutant of the write of add_points that takes the ledger as it is at the
\* write, as a write under a lock taken before the read would
points_written_locked(read, current, n) == add_points(current, n)

\* add_points, second half: the file gets the value read in the first half plus pts
points_written(read, current, n) == add_points(read, n)

\* add_points in session s, first half: points = get_points(username) + pts
\* reads the ledger
ReadPoints(s) ==
  /\ LoggedIn
  /\ sessions.read[s] = None
  /\ sessions' = [sessions EXCEPT !.read[s] = points[player_name]]
  /\ last' = Outcome("get_points", "none", "")
  /\ UNCHANGED <<users, player_name, balance, portfolio, unlocked, points, owned,
                 active, now, trades, basis, malformed>>
  /\ UNCHANGED detailVars

\* add_points in session s, second half: open(points_file, "w") and
\* f.write(str(points))
WritePoints(s, n) ==
  /\ LoggedIn
  /\ sessions.read[s] # None
  /\ sessions.added + n <= MaxPoints
  /\ points' = [points EXCEPT ![player_name] =
                  points_written(sessions.read[s], points[player_name], n)]
  /\ sessions' = [sessions EXCEPT !.read[s] = None, !.added = @ + n]
  /\ last' = Outcome("add_points", "none", "")
  /\ UNCHANGED <<users, player_name, balance, portfolio, unlocked, owned,
                 active, now, trades, basis, malformed>>
  /\ UNCHANGED detailVars

\* two sessions under one name, each adding points, their reads and writes
\* in any order
NextSessions ==
  \/ Session
  \/ \E s \in Sessions : ReadPoints(s)
  \/ \E s \in Sessions, n \in PointAmounts : WritePoints(s, n)

SpecSessions == Init /\ [][NextSessions]_vars

\* C26: lost update.  Two sessions under one name update the same record by
\* read, modify and write with no lock: a session writes the value it read
\* plus its amount whatever the record holds by then, so when another session
\* has written in between, that session's update is overwritten without any
\* error; such an interleaving is reachable.
C26_LostUpdate ==
  [][\A s \in Sessions, n \in PointAmounts :
       WritePoints(s, n) =>
         /\ points'[player_name] = sessions.read[s] + n
         /\ last'.ret # "raise"
         /\ sessions.read[s] # points[player_name]
              => points'[player_name] # points[player_name] + n]_vars

\* both sessions read 0, both added 10 and are done: the ledger holds 10 of
\* the 20 points added
C26_Witness ==
  /\ last.op = "add_points"
  /\ \A s \in Sessions : sessions.read[s] = None
  /\ sessions.added = 20
  /\ points["alice"] = 10

\* ------------------------------------------------------------ session balance
\* sidebar, Settings, button "Update Username" with a name that is not blank:
\* the session's name becomes the new one and the session balance stays; the
\* file it edits is users.csv of the working directory, not data/users.csv
UpdateUsername(new_name) ==
  /\ LoggedIn
  /\ player_name' = new_name
  /\ last' = Outcome("update_username", "none", "")
  /\ UNCHANGED <<users, balance, portfolio, unlocked, points, owned, active, now,
                 trades, basis>>
  /\ UNCHANGED detailVars
  /\ UNCHANGED faultVars

\* one session on the pages that move cash: Home, Store and Detailed Analysis
NextCash ==
  \/ Session
  \/ UpdateUsername("bob")
  \/ Unlock("portfolio_10k")
  \/ BoundedBuy
  \/ HomeSell("AAPL", 1, 200, 0, {})
  \/ \E r \in {"cash_small", "badge_gold"} : StoreRedeem(r)
  \/ CollectDividends(50)

SpecCash == Init /\ [][NextCash]_vars

\* C27: the session balance and the persisted balance agree.  Whenever a step
\* of a session changes the session balance or the balance rows, the session
\* balance afterwards is the row of the session's player; so the row never
\* holds a credit or debit that a later save of the session balance would
\* overwrite.
C27_SessionBalancePersisted ==
  [][(player_name' # "" /\ (balance' # balance \/ users' # users))
       => /\ balance' = users'[player_name']
          /\ balance' # None]_vars

\* a purchase and a dividend of 50 later both balances are 9849
C27_Witness ==
  /\ last.op = "collect_dividends"
  /\ balance = 9849
  /\ users[player_name] = 9849

\* ------------------------------------------------------------ unlock set
\* ids Unlock is called with: two of the catalog and one that is not in it
UnlockCalls == {"first_trade", "portfolio_50k", "moonshot"}

\* runs of the Home page, purchases at and off the month's low, and Unlock calls
NextUnlocks ==
  \/ Session
  \/ \E pv \in PortfolioValues, extra \in RenderExtras : HomeRender(pv, extra)
  \/ \E at_low \in BOOLEAN, pv \in PortfolioValues, extra \in RenderExtras :
        HomeBuy("AAPL", 1, 200, at_low, pv, extra)
  \/ \E a \in UnlockCalls : Unlock(a)

SpecUnlocks == Init /\ [][NextUnlocks]_vars

\* C28: the unlock set holds catalog ids only.  After any runs of the pages
\* and any Unlock calls every id in a player's unlock set is an id of the
\* achievement catalog; an Unlock with an id outside the catalog adds nothing
\* to the set and credits no points.
C28_UnlockedInCatalog ==
  /\ [](\A n \in Players : unlocked[n] \subseteq AchIds)
  /\ [][\A a \in UnlockCalls \ AchIds :
          Unlock(a) => unlocked' = unlocked /\ points' = points]_vars

\* C28, the part that holds: no points are credited for an id outside the
\* catalog, by an Unlock call or by a page, and the points a player has are
\* the points of the catalog ids in the unlock set
C28_NoPointsOutsideCatalog ==
  [][/\ \A a \in UnlockCalls \ AchIds : Unlock(a) => points' = points
     /\ \A n \in Players :
          unlocked'[n] \cap AchIds = unlocked[n] \cap AchIds => points'[n] = points[n]]_vars

\* an Unlock of moonshot raised StopIteration and left the id in the set
C28_NoPointsOutsideCatalogWitness ==
  /\ last = Outcome("unlock", "StopIteration", "")
  /\ unlocked["alice"] = {"moonshot"}
  /\ points["alice"] = 0

\* ------------------------------------------------------------ active and owned
\* every id in a slot of the player's active mapping is in the player's owned set
ActiveOwned(n) ==
  \A c \in SlotTypes : Slot(active[n], c) # "" => Slot(active[n], c) \in owned[n]

\* C29: active implies owned.  In every state reached through Redeem,
\* Activate, Use boost and Is boost active, each id in a slot of a player's
\* active mapping is in that player's owned set; and Is boost active answers
\* True only for a boost the player owns.
C29_ActiveImpliesOwned ==
  /\ [](\A n \in Players : ActiveOwned(n))
  /\ [][\A r \in BoostIds :
          (IsBoostActive(r) /\ last'.ret = "True") => r \in owned'[player_name]]_vars

\* C29, the part that holds: on the Store page, where Activate is offered for
\* owned rewards only and Use takes the boost out of both, active implies owned
C29_ActiveImpliesOwnedOnStorePage ==
  \A n \in Players : ActiveOwned(n)

\* an owned boost sits in the boost slot after the Store page's Activate
C29_ActiveImpliesOwnedOnStorePageWitness ==
  /\ last.op = "activate"
  /\ active["alice"].boost = "boost_no_fee"
  /\ "boost_no_fee" \in owned["alice"]

\* ------------------------------------------------------------ cash never negative
\* everything that moves cash: the trading engine, the Home page, the
\* store's cash reward and the dividends
NextSolvency ==
  \/ Session
  \/ \E price \in Prices : BuyStock("AAPL", 1, price)
  \/ SellStock("AAPL", 1, 200)
  \/ \E price \in Prices : HomeBuy("AAPL", 1, price, FALSE, 0, {})
  \/ HomeSell("AAPL", 1, 200, 0, {})
  \/ StoreRedeem("cash_small")
  \/ CollectDividends(50)

SpecSolvency == Init /\ [][NextSolvency]_vars

\* C30: the cash balance is never negative.  From a login balance of at least
\* zero, after any buys, sells, fees, bonuses, redemptions and dividends the
\* balance row of every player and the session balance are at least zero; a
\* purchase whose cost with the fee is above the balance is refused.
C30_CashNeverNegative ==
  /\ [](/\ \A n \in Players : users[n] = None \/ users[n] >= 0
        /\ balance = None \/ balance >= 0)
  /\ [][\A price \in Prices :
          /\ (HomeBuy("AAPL", 1, price, FALSE, 0, {})
                /\ price + Fee(price, FEE_NUM) > balance)
               => last'.ret = "False" /\ balance' = balance /\ users' = users
          /\ (BuyStock("AAPL", 1, price) /\ price > users[player_name])
               => last'.ret = "False" /\ users' = users]_vars

\* after a purchase at 6000 with its fee of 30 the Home page refuses the next
\* one, and both balances are 3970
C30_Witness ==
  /\ last = Outcome("home_buy", "False", "Insufficient balance for this purchase.")
  /\ balance = 3970
  /\ users["alice"] = 3970

=============================================================================
